---- MODULE Spec2Model ----
(***************************************************************************)
(* A model of the nodela-js-sdk client library: the Config constructor and *)
(* its validation, the SDK error classes, the HTTPClient dispatcher with   *)
(* its response-error interceptor (handleError), and the resource methods  *)
(* built on the dispatcher.                                                *)
(*                                                                         *)
(* JavaScript values are modelled as records [t, n, s]: t is the kind of   *)
(* value, n the payload of a number and s the payload of a string.         *)
(***************************************************************************)
EXTENDS Integers, Sequences, FiniteSets, TLC

(***************************************************************************)
(* Bounds of the model.                                                    *)
(***************************************************************************)
\* longest retry-after header value enumerated
MaxHeaderLen == 2
\* number of dispatcher calls one behaviour may make
MaxCalls == 2
\* number of getConfig calls one behaviour may make
MaxCopies == 2
\* most segments given to buildPath
MaxSegments == 3

\* largest maxAttempts given to withRetry
MaxAttempts == 3

(***************************************************************************)
(* JavaScript values.                                                      *)
(***************************************************************************)
Undef == [t |-> "undefined", n |-> 0, s |-> ""]
Null == [t |-> "null", n |-> 0, s |-> ""]
NaN == [t |-> "number", n |-> 0, s |-> "NaN"]
AnObject == [t |-> "object", n |-> 0, s |-> ""]
AnArray == [t |-> "array", n |-> 0, s |-> ""]
Num(n) == [t |-> "number", n |-> n, s |-> ""]
Str(s) == [t |-> "string", n |-> 0, s |-> s]

IsNaN(v) == v.t = "number" /\ v.s = "NaN"

\* the typeof operator
TypeOf(v) == IF v.t \in {"null", "array"} THEN "object" ELSE v.t

\* ToBoolean: what `!v`, `v ? a : b` and `v || w` test
Truthy(v) ==
  CASE v.t \in {"undefined", "null"} -> FALSE
    [] v.t = "number" -> ~IsNaN(v) /\ v.n # 0
    [] v.t = "string" -> v.s # ""
    [] OTHER -> TRUE

\* (mutant: a ?? b written for a || b, which keeps an empty string)
OrElseNullish(a, b) == IF a.t \in {"undefined", "null"} THEN b ELSE a

\* a || b
OrElse(a, b) == IF Truthy(a) THEN a ELSE b

\* (mutant: a || b written for a ?? b, which replaces a provided 0)
CoalesceFalsy(a, b) == IF Truthy(a) THEN a ELSE b

\* a ?? b
Coalesce(a, b) == IF a.t \in {"undefined", "null"} THEN b ELSE a

(***************************************************************************)
(* Strings: TLA+ strings, read one character at a time.                    *)
(***************************************************************************)
CharAt(s, i) == SubSeq(s, i, i)

WhiteSpace == {" "}

RECURSIVE TrimStart(_)
TrimStart(s) ==
  IF Len(s) > 0 /\ CharAt(s, 1) \in WhiteSpace
  THEN TrimStart(SubSeq(s, 2, Len(s)))
  ELSE s

RECURSIVE TrimEnd(_)
TrimEnd(s) ==
  IF Len(s) > 0 /\ CharAt(s, Len(s)) \in WhiteSpace
  THEN TrimEnd(SubSeq(s, 1, Len(s) - 1))
  ELSE s

\* String.prototype.trim
Trim(s) == TrimEnd(TrimStart(s))

\* String.prototype.startsWith
StartsWith(s, prefix) ==
  Len(s) >= Len(prefix) /\ SubSeq(s, 1, Len(prefix)) = prefix

\* the strings of at most n characters over an alphabet
RECURSIVE StringsUpTo(_, _)
StringsUpTo(alphabet, n) ==
  IF n = 0 THEN {""}
  ELSE LET shorter == StringsUpTo(alphabet, n - 1)
       IN shorter \cup {s \o c : s \in shorter, c \in alphabet}

Digits == {"0", "1", "2", "3", "4", "5", "6", "7", "8", "9"}

DigitValue(c) ==
  CASE c = "0" -> 0 [] c = "1" -> 1 [] c = "2" -> 2 [] c = "3" -> 3
    [] c = "4" -> 4 [] c = "5" -> 5 [] c = "6" -> 6 [] c = "7" -> 7
    [] c = "8" -> 8 [] c = "9" -> 9

\* the decimal digits at the front of s, read as a number, given the value
\* acc of the digits already read
RECURSIVE ReadDigits(_, _)
ReadDigits(s, acc) ==
  IF Len(s) > 0 /\ CharAt(s, 1) \in Digits
  THEN ReadDigits(SubSeq(s, 2, Len(s)), 10 * acc + DigitValue(CharAt(s, 1)))
  ELSE acc

\* parseInt(s) with no radix: leading white space is skipped, one sign is
\* read, then the longest run of decimal digits; no digit gives NaN
ParseInt(s) ==
  LET t == TrimStart(s)
      signed == Len(t) > 0 /\ CharAt(t, 1) \in {"-", "+"}
      body == IF signed THEN SubSeq(t, 2, Len(t)) ELSE t
      magnitude == ReadDigits(body, 0)
  IN IF Len(body) = 0 \/ CharAt(body, 1) \notin Digits
     THEN NaN
     ELSE IF signed /\ CharAt(t, 1) = "-" THEN Num(0 - magnitude)
          ELSE Num(magnitude)

(***************************************************************************)
(* Response bodies.  A body is undefined, null, a string, a number or an   *)
(* object; of an object the model keeps the three properties the library   *)
(* reads: message, error and, when error is an object, error.message.      *)
(***************************************************************************)
\* body.data.payment of a verified invoice: absent, or its tx_hash array
Payment(tx_hash) == [present |-> TRUE, tx_hash |-> tx_hash]

NoPayment == [present |-> FALSE, tx_hash |-> <<>>]

Body(t, message, error, errorMessage) ==
  [t |-> t, message |-> message, error |-> error, errorMessage |-> errorMessage,
   payment |-> NoPayment]

\* the envelope of a verified invoice
InvoiceBody(payment) == [Body("object", Undef, Undef, Undef) EXCEPT !.payment = payment]

NoBody == Body("undefined", Undef, Undef, Undef)

\* body?.message
BodyMessage(body) == IF body.t = "object" THEN body.message ELSE Undef

\* body?.error
BodyError(body) == IF body.t = "object" THEN body.error ELSE Undef

\* errorField?.message
ErrorFieldMessage(body) ==
  IF body.t = "object" /\ body.error.t = "object" THEN body.errorMessage ELSE Undef

(***************************************************************************)
(* The error classes.                                                      *)
(***************************************************************************)
NoDetails == [k |-> "undefined", data |-> NoBody, originalError |-> ""]
DataDetails(data) == [k |-> "data", data |-> data, originalError |-> ""]
OriginalErrorDetails(m) == [k |-> "originalError", data |-> NoBody, originalError |-> m]

SDKError(name, message, code, statusCode, details) ==
  [name |-> name, message |-> message, code |-> code,
   statusCode |-> statusCode, details |-> details, retryAfter |-> Undef]

APIError(message, statusCode, details) ==
  SDKError("APIError", message, Str("API_ERROR"), statusCode, details)

ValidationError(message, details) ==
  SDKError("ValidationError", message, Str("VALIDATION_ERROR"), Undef, details)

AuthenticationError(message) ==
  SDKError("AuthenticationError", message, Str("AUTHENTICATION_ERROR"), Num(401), NoDetails)

\* (mutant: RateLimitError passes APIError's code to super)
RateLimitErrorApiCode(message, retryAfter) ==
  [SDKError("RateLimitError", message, Str("API_ERROR"), Num(429), NoDetails)
     EXCEPT !.retryAfter = retryAfter]

RateLimitError(message, retryAfter) ==
  [SDKError("RateLimitError", message, Str("RATE_LIMIT_ERROR"), Num(429), NoDetails)
     EXCEPT !.retryAfter = retryAfter]

\* new Error(message): the built-in class, with none of SDKError's fields
PlainError(message) ==
  [name |-> "Error", message |-> message, code |-> Undef,
   statusCode |-> Undef, details |-> NoDetails, retryAfter |-> Undef]

NoError == PlainError("")

\* the class each class extends ("" for the built-in Error, which the
\* classes of the library end in)
SuperClass(class) ==
  CASE class = "APIError" -> "SDKError"
    [] class = "ValidationError" -> "SDKError"
    [] class = "AuthenticationError" -> "SDKError"
    [] class = "RateLimitError" -> "SDKError"
    [] class = "SDKError" -> "Error"
    [] OTHER -> ""

RECURSIVE IsSubclass(_, _)
\* class is the given ancestor or extends it, directly or not
IsSubclass(class, ancestor) ==
  IF class = "" THEN FALSE
  ELSE class = ancestor \/ IsSubclass(SuperClass(class), ancestor)

\* error instanceof class: name is the name of the error's constructor
InstanceOf(error, class) == IsSubclass(error.name, class)

(***************************************************************************)
(* APIError.fromResponse and the response-error interceptor.               *)
(***************************************************************************)
DefaultAuthMessage == "Invalid API key or unauthorized access"
NetworkErrorMessage == "Network error occurred"
RateLimitMessage == "Rate limit exceeded"

\* `API request failed with status code ${status}`
DefaultAPIMessage(status) == "API request failed with status code " \o ToString(status)

\* (mutant: body.error read without the ?. guard, which throws for a body
\* that is undefined or null)
fromResponseUnguarded(status, data) ==
  IF data.t \in {"undefined", "null"}
  THEN [name |-> "TypeError",
        message |-> "Cannot read properties of " \o data.t \o " (reading 'error')",
        code |-> Undef, statusCode |-> Undef, details |-> NoDetails, retryAfter |-> Undef]
  ELSE APIError(
         OrElse(
           OrElse(
             OrElse(
               IF TypeOf(BodyMessage(data)) = "string" THEN BodyMessage(data) ELSE Undef,
               IF TypeOf(BodyError(data)) = "string" THEN BodyError(data) ELSE Undef),
             IF TypeOf(BodyError(data)) = "object"
                  /\ TypeOf(ErrorFieldMessage(data)) = "string"
             THEN ErrorFieldMessage(data) ELSE Undef),
           Str(DefaultAPIMessage(status))).s,
         Num(status), DataDetails(data))

fromResponse(status, data) ==
  LET errorField == BodyError(data)
      message ==
        OrElse(
          OrElse(
            OrElse(
              IF TypeOf(BodyMessage(data)) = "string" THEN BodyMessage(data) ELSE Undef,
              IF TypeOf(errorField) = "string" THEN errorField ELSE Undef),
            IF TypeOf(errorField) = "object" /\ TypeOf(ErrorFieldMessage(data)) = "string"
            THEN ErrorFieldMessage(data) ELSE Undef),
          Str(DefaultAPIMessage(status)))
  IN APIError(message.s, Num(status), DataDetails(data))

\* An AxiosError: the description of the failure and, when the server
\* answered, the response (status, the retry-after header, data).
NoHeader == Undef
AxiosError(message, hasResponse, status, retryAfterHeader, data) ==
  [message |-> message, hasResponse |-> hasResponse, status |-> status,
   retryAfter |-> retryAfterHeader, data |-> data]

\* a failure with no response
NoResponseError(message) == AxiosError(message, FALSE, 0, NoHeader, NoBody)

\* handleError, no response: lines 124-126
\* (mutant: the status code of the network error is left out)
networkErrorNoStatus(error) ==
  APIError(NetworkErrorMessage, Undef, OriginalErrorDetails(error.message))

networkError(error) ==
  APIError(NetworkErrorMessage, Num(0), OriginalErrorDetails(error.message))

\* handleError, case 401
\* (mutant: the 401 case takes its message through fromResponse's chain)
unauthorizedChain(data) ==
  LET chained == fromResponse(401, data).message
  IN AuthenticationError(
       IF chained = DefaultAPIMessage(401) THEN DefaultAuthMessage ELSE chained)

unauthorized(data) ==
  AuthenticationError(
    OrElse(IF TypeOf(BodyMessage(data)) = "string" THEN BodyMessage(data) ELSE Undef,
           Str(DefaultAuthMessage)).s)

\* handleError, case 429
\* (mutant: parseInt(retryAfter) || undefined, which loses a delay of 0)
rateLimitedLosingZero(retryAfter) ==
  RateLimitError(
    RateLimitMessage,
    IF Truthy(retryAfter) THEN OrElse(ParseInt(retryAfter.s), Undef) ELSE Undef)

rateLimited(retryAfter) ==
  RateLimitError(
    RateLimitMessage,
    IF Truthy(retryAfter) THEN ParseInt(retryAfter.s) ELSE Undef)

\* (mutant: no case for 429, which falls to the default)
handleErrorNo429(error) ==
  IF ~error.hasResponse
  THEN networkError(error)
  ELSE CASE error.status = 401 -> unauthorized(error.data)
         [] OTHER -> fromResponse(error.status, error.data)

\* the error handleError throws for an AxiosError
handleError(error) ==
  IF ~error.hasResponse
  THEN networkError(error)
  ELSE CASE error.status = 401 -> unauthorized(error.data)
         [] error.status = 429 -> rateLimited(error.retryAfter)
         [] OTHER -> fromResponse(error.status, error.data)

\* a rejection that is no SDK error: the transport's own failure
RawError(error) ==
  [name |-> "AxiosError", message |-> error.message, code |-> Undef,
   statusCode |-> IF error.hasResponse THEN Num(error.status) ELSE Undef,
   details |-> NoDetails, retryAfter |-> Undef]

\* (mutant: the failure is passed on as it came, as the request interceptor
\* does)
responseRejectedRaw(error) == RawError(error)

\* the response interceptor's failure handler: what the request rejects with
responseRejected(error) == handleError(error)

(***************************************************************************)
(* Config: the constructor and its validation.                             *)
(***************************************************************************)
InvalidApiKeyMessage == "Invalid API key provided. Please provide a valid API key."
InvalidTimeoutMessage == "Invalid timeout value. Timeout must be a positive number."
InvalidMaxRetriesMessage ==
  "Invalid maxRetries value. maxRetries must be a non-negative number."
InvalidEnvironmentMessage ==
  "Invalid environment value. Environment must be either \"production\" or \"sandbox\"."

BaseURL == "https://api.nodela.co"

\* the options argument: absent, or an object with three optional fields
Options(present, timeout, maxRetries, environment) ==
  [present |-> present, timeout |-> timeout, maxRetries |-> maxRetries,
   environment |-> environment]

NoOptions == Options(FALSE, Undef, Undef, Undef)

isNodelaApiKey(apiKey) ==
  StartsWith(apiKey.s, "nk_test_") \/ StartsWith(apiKey.s, "nk_live_")

\* validateApiKey: the error it throws, or NoError
validateApiKey(apiKey) ==
  IF \/ ~Truthy(apiKey)
     \/ TypeOf(apiKey) # "string"
     \/ Trim(apiKey.s) = ""
     \/ ~isNodelaApiKey(apiKey)
  THEN PlainError(InvalidApiKeyMessage)
  ELSE NoError

\* (mutant: the environment is checked before the timeout and maxRetries)
validateOptionsEnvironmentFirst(options) ==
  IF /\ options.environment # Undef
     /\ options.environment \notin {Str("production"), Str("sandbox")}
  THEN PlainError(InvalidEnvironmentMessage)
  ELSE IF /\ options.timeout # Undef
          /\ (TypeOf(options.timeout) # "number"
              \/ (~IsNaN(options.timeout) /\ options.timeout.n <= 0))
  THEN PlainError(InvalidTimeoutMessage)
  ELSE IF /\ options.maxRetries # Undef
          /\ (TypeOf(options.maxRetries) # "number"
              \/ (~IsNaN(options.maxRetries) /\ options.maxRetries.n < 0))
  THEN PlainError(InvalidMaxRetriesMessage)
  ELSE NoError

\* (mutant: timeout < 0 written for timeout <= 0)
validateOptionsZeroTimeout(options) ==
  IF /\ options.timeout # Undef
     /\ (TypeOf(options.timeout) # "number"
         \/ (~IsNaN(options.timeout) /\ options.timeout.n < 0))
  THEN PlainError(InvalidTimeoutMessage)
  ELSE IF /\ options.maxRetries # Undef
          /\ (TypeOf(options.maxRetries) # "number"
              \/ (~IsNaN(options.maxRetries) /\ options.maxRetries.n < 0))
  THEN PlainError(InvalidMaxRetriesMessage)
  ELSE IF /\ options.environment # Undef
          /\ options.environment \notin {Str("production"), Str("sandbox")}
  THEN PlainError(InvalidEnvironmentMessage)
  ELSE NoError

\* validateOptions: the error it throws, or NoError
validateOptions(options) ==
  IF /\ options.timeout # Undef
     /\ (TypeOf(options.timeout) # "number"
         \/ (~IsNaN(options.timeout) /\ options.timeout.n <= 0))
  THEN PlainError(InvalidTimeoutMessage)
  ELSE IF /\ options.maxRetries # Undef
          /\ (TypeOf(options.maxRetries) # "number"
              \/ (~IsNaN(options.maxRetries) /\ options.maxRetries.n < 0))
  THEN PlainError(InvalidMaxRetriesMessage)
  ELSE IF /\ options.environment # Undef
          /\ options.environment \notin {Str("production"), Str("sandbox")}
  THEN PlainError(InvalidEnvironmentMessage)
  ELSE NoError

SDKConfig(apiKey, baseURL, timeout, maxRetries, environment) ==
  [apiKey |-> apiKey, baseURL |-> baseURL, timeout |-> timeout,
   maxRetries |-> maxRetries, environment |-> environment]

NoConfig == SDKConfig(Undef, "", Undef, Undef, Undef)

DefaultTimeout == Num(5000)
DefaultMaxRetries == Num(3)
DefaultEnvironment == Str("production")

\* (mutant: the sandbox environment gets a base URL of its own)
ConfigConstructorByEnvironment(apiKey, options) ==
  LET keyError == validateApiKey(apiKey)
      optionsError == IF options.present THEN validateOptions(options) ELSE NoError
  IN IF keyError # NoError THEN [error |-> keyError, config |-> NoConfig]
     ELSE IF optionsError # NoError THEN [error |-> optionsError, config |-> NoConfig]
     ELSE [error |-> NoError,
           config |-> SDKConfig(apiKey,
                                IF options.environment = Str("sandbox")
                                THEN "https://sandbox.nodela.co" ELSE BaseURL,
                                Coalesce(options.timeout, DefaultTimeout),
                                Coalesce(options.maxRetries, DefaultMaxRetries),
                                Coalesce(options.environment, DefaultEnvironment))]

\* new Config(apiKey, options): the error thrown, or NoError and the stored
\* configuration
ConfigConstructor(apiKey, options) ==
  LET keyError == validateApiKey(apiKey)
      optionsError == IF options.present THEN validateOptions(options) ELSE NoError
  IN IF keyError # NoError THEN [error |-> keyError, config |-> NoConfig]
     ELSE IF optionsError # NoError THEN [error |-> optionsError, config |-> NoConfig]
     ELSE [error |-> NoError,
           config |-> SDKConfig(apiKey, BaseURL,
                                Coalesce(options.timeout, DefaultTimeout),
                                Coalesce(options.maxRetries, DefaultMaxRetries),
                                Coalesce(options.environment, DefaultEnvironment))]

\* the keys of SDKConfig
ConfigKeys == {"apiKey", "baseURL", "timeout", "maxRetries", "environment"}

\* Config.get(key): this.config[key]
configGet(cfg, key) == cfg[key]

\* Objects are told apart by their references: 0 is the object Config keeps
\* in this.config, r > 0 the r-th object handed out to a caller, kept in
\* objects[r].
ConfigRef == 0

Deref(ref, cfg, objects) == IF ref = ConfigRef THEN cfg ELSE objects[ref]

\* (mutant: this.config itself is returned)
getAllShared(cfg, objects) == [ref |-> ConfigRef, objects |-> objects]

\* Config.getAll(): { ...this.config }, a new object that holds each own
\* property of this.config; the reference returned and the objects after
getAll(cfg, objects) ==
  [ref |-> Len(objects) + 1,
   objects |-> Append(objects, [key \in DOMAIN cfg |-> cfg[key]])]

\* Nodela.getConfig(): this.config.getAll()
getConfig(cfg, objects) == getAll(cfg, objects)

(***************************************************************************)
(* HTTPClient: the transport handle and the request pipeline.              *)
(***************************************************************************)
\* the settings axios.create is given
AxiosInstance(created, baseURL, timeout, contentType, authorization) ==
  [created |-> created, baseURL |-> baseURL, timeout |-> timeout,
   contentType |-> contentType, authorization |-> authorization]

NoInstance == AxiosInstance(FALSE, "", Undef, "", "")

createAxiosInstance(cfg) ==
  AxiosInstance(TRUE, cfg.baseURL, cfg.timeout, "application/json",
                "Bearer " \o cfg.apiKey.s)

\* the data of a request: nothing, or the params of an invoice
RequestData(k, amount, currency, reference) ==
  [k |-> k, amount |-> amount, currency |-> currency, reference |-> reference]

NoData == RequestData("undefined", 0, "", "")

\* an AxiosRequestConfig: the fields the library sets, and the timeout as
\* the example of a field only the caller sets
AxiosRequestConfig(method, url, data, timeout) ==
  [method |-> method, url |-> url, data |-> data, timeout |-> timeout]

NoRequestConfig == AxiosRequestConfig(Undef, Undef, NoData, Undef)

\* a successful response
AxiosResponse(status, retryAfterHeader, data) ==
  [status |-> status, retryAfter |-> retryAfterHeader, data |-> data]

NoResponse == AxiosResponse(0, NoHeader, NoBody)

\* the request interceptor: (config) => config, (error) => Promise.reject(error)
requestFulfilled(config) == config
requestRejected(error) == error

\* the response interceptor's success handler: (response) => response
responseFulfilled(response) == response

\* (mutant: the response is returned whole)
requestResultWhole(response) == responseFulfilled(response)

\* request(): what the awaited call resolves to
requestResult(response) == responseFulfilled(response).data

\* the verb wrappers: the request config each hands to request()
\* (mutant: the caller's config is spread after the wrapper's own fields)
postOverridable(url, data, config) ==
  [method |-> IF config.method # Undef THEN config.method ELSE Str("POST"),
   url |-> IF config.url # Undef THEN config.url ELSE Str(url),
   data |-> IF config.data # NoData THEN config.data ELSE data,
   timeout |-> config.timeout]

get(url, config) == [config EXCEPT !.method = Str("GET"), !.url = Str(url)]
post(url, data, config) ==
  [config EXCEPT !.method = Str("POST"), !.url = Str(url), !.data = data]
put(url, data, config) ==
  [config EXCEPT !.method = Str("PUT"), !.url = Str(url), !.data = data]
patch(url, data, config) ==
  [config EXCEPT !.method = Str("PATCH"), !.url = Str(url), !.data = data]
delete(url, config) == [config EXCEPT !.method = Str("DELETE"), !.url = Str(url)]

(***************************************************************************)
(* BaseResource and the two resources.                                     *)
(***************************************************************************)
RECURSIVE Join(_, _)
\* Array.prototype.join
Join(parts, sep) ==
  IF Len(parts) = 0 THEN ""
  ELSE IF Len(parts) = 1 THEN parts[1]
  ELSE parts[1] \o sep \o Join(Tail(parts), sep)

\* String(value)
ToJSString(v) ==
  CASE v.t = "string" -> v.s
    [] v.t = "number" -> IF IsNaN(v) THEN "NaN" ELSE ToString(v.n)
    [] v.t = "null" -> "null"
    [] v.t = "undefined" -> "undefined"
    [] v.t = "array" -> ""
    [] OTHER -> "[object Object]"

\* the string Array.prototype.join makes of an element
JoinString(v) == IF v.t \in {"undefined", "null"} THEN "" ELSE ToJSString(v)

\* (mutant: empty segments are dropped before the join)
buildPathCollapsing(basePath, segments) ==
  LET kept == SelectSeq(segments, LAMBDA v : JoinString(v) # "")
  IN Join(<<basePath>> \o [i \in DOMAIN kept |-> JoinString(kept[i])], "/")

\* BaseResource.buildPath: [this.basePath, ...segments].join("/")
buildPath(basePath, segments) ==
  Join(<<basePath>> \o [i \in DOMAIN segments |-> JoinString(segments[i])], "/")

Unreserved ==
  "ABCDEFGHIJKLMNOPQRSTUVWXYZabcdefghijklmnopqrstuvwxyz0123456789-_.!~*'()"

IsUnreserved(c) == \E i \in 1..Len(Unreserved) : CharAt(Unreserved, i) = c

\* the escape of one reserved character
PercentEncode(c) ==
  CASE c = " " -> "%20" [] c = "&" -> "%26" [] c = "=" -> "%3D"
    [] c = "?" -> "%3F" [] c = "/" -> "%2F" [] c = "%" -> "%25"

RECURSIVE encodeURIComponent(_)
encodeURIComponent(s) ==
  IF Len(s) = 0 THEN ""
  ELSE (IF IsUnreserved(CharAt(s, 1)) THEN CharAt(s, 1) ELSE PercentEncode(CharAt(s, 1)))
       \o encodeURIComponent(SubSeq(s, 2, Len(s)))

\* the params of a query: absent, or the entries of an object in insertion
\* order
QueryParams(present, entries) == [present |-> present, entries |-> entries]

NoParams == QueryParams(FALSE, <<>>)

RECURSIVE FilterEntriesTruthy(_)
\* (mutant: the filter keeps the truthy values only, which drops 0 and '')
FilterEntriesTruthy(entries) ==
  IF Len(entries) = 0 THEN <<>>
  ELSE IF Truthy(Head(entries).value)
       THEN <<Head(entries)>> \o FilterEntriesTruthy(Tail(entries))
       ELSE FilterEntriesTruthy(Tail(entries))

RECURSIVE FilterEntries(_)
\* .filter(([, value]) => value !== undefined && value !== null)
FilterEntries(entries) ==
  IF Len(entries) = 0 THEN <<>>
  ELSE IF Head(entries).value.t \notin {"undefined", "null"}
       THEN <<Head(entries)>> \o FilterEntries(Tail(entries))
       ELSE FilterEntries(Tail(entries))

EncodeEntry(e) == encodeURIComponent(e.key) \o "=" \o encodeURIComponent(ToJSString(e.value))

buildQueryString(params) ==
  IF ~params.present THEN ""
  ELSE LET kept == FilterEntries(params.entries)
           queryString == Join([i \in 1..Len(kept) |-> EncodeEntry(kept[i])], "&")
       IN IF queryString # "" THEN "?" \o queryString ELSE ""

SUPPORTED_CURRENCIES ==
  <<
     "USD", "CAD", "MXN", "BRL", "ARS", "CLP", "COP", "PEN", "JMD", "TTD",
     "EUR", "GBP", "CHF", "SEK", "NOK", "DKK", "PLN", "CZK", "HUF", "RON",
     "BGN", "HRK", "ISK", "TRY", "RUB", "UAH", "NGN", "ZAR", "KES", "GHS",
     "EGP", "MAD", "TZS", "UGX", "XOF", "XAF", "ETB", "JPY", "CNY", "INR",
     "KRW", "IDR", "MYR", "THB", "PHP", "VND", "SGD", "HKD", "TWD", "BDT",
     "PKR", "LKR", "AED", "SAR", "QAR", "KWD", "BHD", "OMR", "ILS", "JOD",
     "AUD", "NZD", "FJD"
  >>

LowerCase == "abcdefghijklmnopqrstuvwxyz"
UpperCase == "ABCDEFGHIJKLMNOPQRSTUVWXYZ"

UpperChar(c) ==
  IF \E i \in 1..Len(LowerCase) : CharAt(LowerCase, i) = c
  THEN CharAt(UpperCase, CHOOSE i \in 1..Len(LowerCase) : CharAt(LowerCase, i) = c)
  ELSE c

RECURSIVE toUpperCase(_)
toUpperCase(s) ==
  IF Len(s) = 0 THEN ""
  ELSE UpperChar(CharAt(s, 1)) \o toUpperCase(SubSeq(s, 2, Len(s)))

\* Array.prototype.includes
Includes(list, x) == \E i \in 1..Len(list) : list[i] = x

UnsupportedCurrencyMessage(currency) ==
  "Unsupported currency: \"" \o currency \o "\". Supported currencies: "
    \o Join(SUPPORTED_CURRENCIES, ", ")

InvoicesBasePath == "/v1/invoices"
TransactionsBasePath == "/v1/transactions"

\* (mutant: the params are posted as given)
invoicesCreateAsGiven(params) ==
  LET upper == toUpperCase(params.currency)
  IN IF ~Includes(SUPPORTED_CURRENCIES, upper)
     THEN [error |-> PlainError(UnsupportedCurrencyMessage(params.currency)),
           config |-> NoRequestConfig]
     ELSE [error |-> NoError,
           config |-> post(InvoicesBasePath, params, NoRequestConfig)]

\* Invoices.create up to its call of the dispatcher: the error thrown, or
\* NoError and the request config of the POST
invoicesCreate(params) ==
  LET upper == toUpperCase(params.currency)
  IN IF ~Includes(SUPPORTED_CURRENCIES, upper)
     THEN [error |-> PlainError(UnsupportedCurrencyMessage(params.currency)),
           config |-> NoRequestConfig]
     ELSE [error |-> NoError,
           config |-> post(InvoicesBasePath, [params EXCEPT !.currency = upper],
                                 NoRequestConfig)]

\* (mutant: the segments of the path are swapped)
invoicesVerifySwapped(invoiceId) ==
  get(buildPath(InvoicesBasePath, <<Str("verify"), Str(invoiceId)>>), NoRequestConfig)

\* Invoices.verify: the request config of its GET
invoicesVerify(invoiceId) ==
  get(buildPath(InvoicesBasePath, <<Str(invoiceId), Str("verify")>>), NoRequestConfig)

transactionsList(params) ==
  get(TransactionsBasePath \o buildQueryString(params), NoRequestConfig)

(***************************************************************************)
(* The state of one program: a Nodela facade under construction or built,  *)
(* the calls made on it and the requests handed to the transport.          *)
(***************************************************************************)
VARIABLES
  state,          \* "new", "ready" (constructed) or "failed" (the constructor threw)
  args,           \* the arguments of the constructor
  config,         \* Config.config
  thrown,         \* the error the constructor threw
  axiosInstance,  \* HTTPClient.axiosInstance: the settings of the transport handle
  calls,          \* the calls made on the facade, by call number
  transport,      \* the requests given to axiosInstance.request, in order
  heap,           \* the objects getConfig handed out, by reference
  returned,       \* what each getConfig returned: the reference and what it held
  given,          \* the argument each call of a resource method was given
  evaluated,      \* a helper or constructor evaluated on its own: arguments and result
  retry           \* the documented withRetry wrapper: its locals and what fn did

vars ==
  <<state, args, config, thrown, axiosInstance, calls, transport, heap, returned, given,
    evaluated, retry>>

CallIds == 1..MaxCalls

NoArgs == [apiKey |-> Undef, options |-> NoOptions]

\* what the transport made of a request: nothing yet, a response, a failure
NoOutcome == [k |-> "none", response |-> NoResponse, error |-> NoResponseError("")]
ResponseOutcome(response) ==
  [k |-> "response", response |-> response, error |-> NoResponseError("")]
ErrorOutcome(error) == [k |-> "error", response |-> NoResponse, error |-> error]

\* a call: pc is "idle", "pending" (awaiting the transport), "resolved" or
\* "rejected"; dispatched tells whether it reached HTTPClient.request
Call(pc, op, dispatched, request, outcome, value, error) ==
  [pc |-> pc, op |-> op, dispatched |-> dispatched, request |-> request,
   outcome |-> outcome, value |-> value, error |-> error]

IdleCall == Call("idle", "", FALSE, NoRequestConfig, NoOutcome, NoBody, NoError)

\* the argument of a resource method: the params of invoices.create, the
\* invoiceId of invoices.verify or the params of transactions.list
Argument(params, invoiceId, query) ==
  [params |-> params, invoiceId |-> invoiceId, query |-> query]

NoArgument == Argument(NoData, "", NoParams)

\* what was evaluated on its own: fn is "" (nothing yet), "buildPath" or
\* "new" (a constructor of the error class kind)
Evaluated(fn, basePath, segments, path, kind, error) ==
  [fn |-> fn, basePath |-> basePath, segments |-> segments, path |-> path,
   kind |-> kind, error |-> error]

NotEvaluated == Evaluated("", "", <<>>, "", "", NoError)

\* what one invocation of fn settled with: a value, or an error
FnOutcome(ok, value, error) == [ok |-> ok, value |-> value, error |-> error]

\* withRetry: pc is "idle", "calling" (awaiting fn()), "waiting" (awaiting
\* the timer), "returned" or "threw"; attempt and maxAttempts are its
\* locals, outcomes what the invocations of fn settled with, in order, and
\* waits the delays it slept, in milliseconds
Retry(pc, maxAttempts, attempt, outcomes, waits, value, error) ==
  [pc |-> pc, maxAttempts |-> maxAttempts, attempt |-> attempt,
   outcomes |-> outcomes, waits |-> waits, value |-> value, error |-> error]

NotRetrying == Retry("idle", 0, 0, <<>>, <<>>, NoBody, NoError)

Init ==
  /\ state = "new"
  /\ args = NoArgs
  /\ config = NoConfig
  /\ thrown = NoError
  /\ axiosInstance = NoInstance
  /\ calls = [c \in CallIds |-> IdleCall]
  /\ transport = <<>>
  /\ heap = <<>>
  /\ returned = <<>>
  /\ given = [c \in CallIds |-> NoArgument]
  /\ evaluated = NotEvaluated
  /\ retry = NotRetrying

\* (mutant: the HTTPClient and its transport handle are built from the
\* arguments before the Config validates them)
ConstructAllocatingFirst(apiKey, options) ==
  /\ state = "new"
  /\ LET built == ConfigConstructor(apiKey, options)
         unchecked == SDKConfig(apiKey, BaseURL,
                                Coalesce(options.timeout, DefaultTimeout),
                                Coalesce(options.maxRetries, DefaultMaxRetries),
                                Coalesce(options.environment, DefaultEnvironment))
     IN /\ args' = [apiKey |-> apiKey, options |-> options]
        /\ axiosInstance' = createAxiosInstance(unchecked)
        /\ IF built.error # NoError
           THEN /\ state' = "failed"
                /\ thrown' = built.error
                /\ UNCHANGED config
           ELSE /\ state' = "ready"
                /\ config' = built.config
                /\ UNCHANGED thrown
  /\ UNCHANGED <<calls, transport, heap, returned, given, evaluated, retry>>

\* new Nodela(apiKey, options): the Config is built first; the HTTPClient and
\* its transport handle only when the Config did not throw
Construct(apiKey, options) ==
  /\ state = "new"
  /\ LET built == ConfigConstructor(apiKey, options)
     IN /\ args' = [apiKey |-> apiKey, options |-> options]
        /\ IF built.error # NoError
           THEN /\ state' = "failed"
                /\ thrown' = built.error
                /\ UNCHANGED <<config, axiosInstance>>
           ELSE /\ state' = "ready"
                /\ config' = built.config
                /\ axiosInstance' = createAxiosInstance(built.config)
                /\ UNCHANGED thrown
  /\ UNCHANGED <<calls, transport, heap, returned, given, evaluated, retry>>

\* nodela.getConfig(): the caller is handed a reference and reads what the
\* object holds
GetConfig ==
  /\ state = "ready"
  /\ Len(returned) < MaxCopies
  /\ LET got == getConfig(config, heap)
     IN /\ heap' = got.objects
        /\ returned' = Append(returned,
                          [ref |-> got.ref, seen |-> Deref(got.ref, config, got.objects)])
  /\ UNCHANGED <<state, args, config, thrown, axiosInstance, calls, transport, given, evaluated, retry>>

\* the caller assigns to a property of the i-th object it was handed:
\* (config as any)[key] = value
MutateReturned(i, key, value) ==
  /\ i \in 1..Len(returned)
  /\ LET ref == returned[i].ref
     IN IF ref = ConfigRef
        THEN /\ config' = [config EXCEPT ![key] = value]
             /\ UNCHANGED heap
        ELSE /\ heap' = [heap EXCEPT ![ref][key] = value]
             /\ UNCHANGED config
  /\ UNCHANGED <<state, args, thrown, axiosInstance, calls, transport, returned, given, evaluated, retry>>

\* resource.buildPath(...segments), evaluated on its own
BuildPath(basePath, segments) ==
  /\ evaluated = NotEvaluated
  /\ evaluated' = Evaluated("buildPath", basePath, segments,
                            buildPath(basePath, segments), "", NoError)
  /\ UNCHANGED <<state, args, config, thrown, axiosInstance, calls, transport, heap,
                 returned, given, retry>>

\* the default of AuthenticationError's message parameter
DefaultAuthenticationMessage == "Authentication failed"

\* new <kind>(message, ...): message is undefined when it is left out, which
\* only AuthenticationError's default parameter replaces
NewError(kind, message, statusCode, details, retryAfter) ==
  /\ evaluated = NotEvaluated
  /\ evaluated' =
       Evaluated("new", "", <<>>, "", kind,
         CASE kind = "ValidationError" -> ValidationError(ToJSString(message), details)
           [] kind = "AuthenticationError" ->
                AuthenticationError(IF message = Undef THEN DefaultAuthenticationMessage
                                    ELSE ToJSString(message))
           [] kind = "RateLimitError" -> RateLimitError(ToJSString(message), retryAfter)
           [] kind = "APIError" -> APIError(ToJSString(message), statusCode, details))
  /\ UNCHANGED <<state, args, config, thrown, axiosInstance, calls, transport, heap,
                 returned, given, retry>>

\* calls are numbered in the order they are made
CanStart(c) ==
  /\ state = "ready"
  /\ calls[c].pc = "idle"
  /\ \A d \in CallIds : d < c => calls[d].pc # "idle"

\* (mutant: the request is sent a second time)
sendRequestTwice(log, c, request) ==
  Append(Append(log, [call |-> c, config |-> requestFulfilled(request)]),
         [call |-> c, config |-> requestFulfilled(request)])

\* this.axiosInstance.request(config): the request passes the request
\* interceptor and is handed to the transport
sendRequest(log, c, request) ==
  Append(log, [call |-> c, config |-> requestFulfilled(request)])

\* HTTPClient.request up to its await
Dispatch(c, op, request) ==
  /\ calls' = [calls EXCEPT ![c] =
                 Call("pending", op, TRUE, request, NoOutcome, NoBody, NoError)]
  /\ transport' = sendRequest(transport, c, request)
  /\ UNCHANGED <<state, args, config, thrown, axiosInstance, heap, returned, evaluated, retry>>

\* client.request(config)
CallRequest(c, request) ==
  /\ CanStart(c)
  /\ Dispatch(c, "request", request)
  /\ UNCHANGED given

\* client.get / post / put / patch / delete
CallVerb(c, verb, url, data, extra) ==
  /\ CanStart(c)
  /\ Dispatch(c, verb,
       CASE verb = "get" -> get(url, extra)
         [] verb = "post" -> post(url, data, extra)
         [] verb = "put" -> put(url, data, extra)
         [] verb = "patch" -> patch(url, data, extra)
         [] verb = "delete" -> delete(url, extra))
  /\ UNCHANGED given

\* nodela.invoices.create(params)
InvoicesCreate(c, params) ==
  /\ CanStart(c)
  /\ given' = [given EXCEPT ![c] = Argument(params, "", NoParams)]
  /\ LET made == invoicesCreate(params)
     IN IF made.error # NoError
        THEN /\ calls' = [calls EXCEPT ![c] =
                            Call("rejected", "invoices.create", FALSE, NoRequestConfig,
                                 NoOutcome, NoBody, made.error)]
             /\ UNCHANGED <<state, args, config, thrown, axiosInstance, transport,
                            heap, returned, evaluated, retry>>
        ELSE Dispatch(c, "invoices.create", made.config)

\* nodela.invoices.verify(invoiceId)
InvoicesVerify(c, invoiceId) ==
  /\ CanStart(c)
  /\ Dispatch(c, "invoices.verify", invoicesVerify(invoiceId))
  /\ given' = [given EXCEPT ![c] = Argument(NoData, invoiceId, NoParams)]

\* nodela.transactions.list(params)
TransactionsList(c, params) ==
  /\ CanStart(c)
  /\ Dispatch(c, "transactions.list", transactionsList(params))
  /\ given' = [given EXCEPT ![c] = Argument(NoData, "", params)]

\* (mutant: the result is kept in a place the calls share, so the answer to
\* one call resolves every call in flight)
TransportRespondsShared(c, response) ==
  /\ calls[c].pc = "pending"
  /\ calls' = [d \in CallIds |->
                IF d = c
                THEN [calls[d] EXCEPT !.pc = "resolved",
                                      !.outcome = ResponseOutcome(response),
                                      !.value = requestResult(response)]
                ELSE IF calls[d].pc = "pending"
                THEN [calls[d] EXCEPT !.pc = "resolved", !.value = requestResult(response)]
                ELSE calls[d]]
  /\ UNCHANGED <<state, args, config, thrown, axiosInstance, transport, heap, returned, given, evaluated, retry>>

\* the transport answers with a response of a successful status: the response
\* interceptor passes it on and request() returns its data
TransportResponds(c, response) ==
  /\ calls[c].pc = "pending"
  /\ calls' = [calls EXCEPT ![c] =
                 [@ EXCEPT !.pc = "resolved",
                           !.outcome = ResponseOutcome(response),
                           !.value = requestResult(response)]]
  /\ UNCHANGED <<state, args, config, thrown, axiosInstance, transport, heap, returned, given, evaluated, retry>>

\* the transport fails, with or without a response: the response interceptor
\* hands the failure to handleError, whose error rejects the call
TransportFails(c, error) ==
  /\ calls[c].pc = "pending"
  /\ calls' = [calls EXCEPT ![c] =
                 [@ EXCEPT !.pc = "rejected",
                           !.outcome = ErrorOutcome(error),
                           !.error = responseRejected(error)]]
  /\ UNCHANGED <<state, args, config, thrown, axiosInstance, transport, heap, returned, given, evaluated, retry>>

\* the request fails while it is being set up, before anything is sent: the
\* rejection passes the request interceptor's failure handler, which rejects
\* again, and then the response interceptor's
SetupFails(c, description) ==
  /\ calls[c].pc = "pending"
  /\ LET error == requestRejected(NoResponseError(description))
     IN calls' = [calls EXCEPT ![c] =
                    [@ EXCEPT !.pc = "rejected",
                              !.outcome = ErrorOutcome(error),
                              !.error = responseRejected(error)]]
  /\ UNCHANGED <<state, args, config, thrown, axiosInstance, transport, heap, returned, given, evaluated, retry>>

(***************************************************************************)
(* withRetry(fn, maxAttempts), the wrapper of docs/examples.md.            *)
(***************************************************************************)
DefaultMaxAttempts == 3

RetryLoopFailedMessage == "Retry logic failed unexpectedly"

RECURSIVE Pow2(_)
\* Math.pow(2, n)
Pow2(n) == IF n <= 0 THEN 1 ELSE 2 * Pow2(n - 1)

\* error.statusCode !== undefined && error.statusCode >= 500
IsServerStatus(statusCode) ==
  /\ statusCode # Undef
  /\ TypeOf(statusCode) = "number"
  /\ ~IsNaN(statusCode)
  /\ statusCode.n >= 500

\* the catch block: sleep and continue, or throw
\* (mutant: the tests of isLastAttempt are left out)
catchErrorNoLastAttempt(attempt, maxAttempts, error) ==
  IF InstanceOf(error, "RateLimitError") /\ Truthy(error.retryAfter)
  THEN [throw |-> FALSE, waitMs |-> error.retryAfter.n * 1000]
  ELSE IF InstanceOf(error, "APIError") /\ IsServerStatus(error.statusCode)
  THEN [throw |-> FALSE, waitMs |-> 1000 * Pow2(attempt - 1)]
  ELSE [throw |-> TRUE, waitMs |-> 0]

catchError(attempt, maxAttempts, error) ==
  LET isLastAttempt == attempt = maxAttempts
  IN IF InstanceOf(error, "RateLimitError") /\ Truthy(error.retryAfter) /\ ~isLastAttempt
     THEN [throw |-> FALSE, waitMs |-> error.retryAfter.n * 1000]
     ELSE IF /\ InstanceOf(error, "APIError")
             /\ IsServerStatus(error.statusCode)
             /\ ~isLastAttempt
     THEN [throw |-> FALSE, waitMs |-> 1000 * Pow2(attempt - 1)]
     ELSE [throw |-> TRUE, waitMs |-> 0]

\* the head of the for loop with the given attempt: fn is invoked and
\* awaited, or the loop is over and the statement after it throws
LoopHead(r, attempt) ==
  IF attempt <= r.maxAttempts
  THEN [r EXCEPT !.pc = "calling", !.attempt = attempt]
  ELSE [r EXCEPT !.pc = "threw", !.attempt = attempt,
                 !.error = PlainError(RetryLoopFailedMessage)]

\* withRetry(fn, maxAttempts) up to its first await; maxAttempts is 3 when
\* the argument is left out
WithRetry(maxAttempts) ==
  /\ retry.pc = "idle"
  /\ retry' = LoopHead([retry EXCEPT !.maxAttempts =
                                     IF maxAttempts = Undef THEN DefaultMaxAttempts
                                     ELSE maxAttempts.n],
                       1)
  /\ UNCHANGED <<state, args, config, thrown, axiosInstance, calls, transport, heap,
                 returned, given, evaluated>>

\* the promise of fn() settles: return await fn(), or the catch block
FnSettles(outcome) ==
  /\ retry.pc = "calling"
  /\ LET r == [retry EXCEPT !.outcomes = Append(@, outcome)]
         caught == catchError(retry.attempt, retry.maxAttempts, outcome.error)
     IN retry' =
          IF outcome.ok THEN [r EXCEPT !.pc = "returned", !.value = outcome.value]
          ELSE IF caught.throw THEN [r EXCEPT !.pc = "threw", !.error = outcome.error]
          ELSE [r EXCEPT !.pc = "waiting", !.waits = Append(@, caught.waitMs)]
  /\ UNCHANGED <<state, args, config, thrown, axiosInstance, calls, transport, heap,
                 returned, given, evaluated>>

\* the timer of setTimeout fires: continue, attempt++ and the loop's head
TimerFires ==
  /\ retry.pc = "waiting"
  /\ retry' = LoopHead(retry, retry.attempt + 1)
  /\ UNCHANGED <<state, args, config, thrown, axiosInstance, calls, transport, heap,
                 returned, given, evaluated>>

(***************************************************************************)
(* The program: one facade, any of its public operations, any answer of    *)
(* the transport.                                                          *)
(***************************************************************************)
ValidKey == Str("nk_test_abc123")

Keys == {ValidKey, Str("sk_test_123")}

OptionSets == {NoOptions, Options(TRUE, Num(1), Num(0), Str("sandbox"))}

Urls == {"/v1/test"}

InvoiceParams(amount, currency, reference) ==
  RequestData("params", amount, currency, reference)

DataSet == {InvoiceParams(100, "USD", "order-1")}

ExtraConfigs == {NoRequestConfig}

RequestConfigs == {AxiosRequestConfig(Str("GET"), Str("/v1/test"), NoData, Num(1000))}

Verbs == {"get", "post", "put", "patch", "delete"}

CreateParams == {InvoiceParams(50, "ngn", "order-1"), InvoiceParams(100, "XYZ", "")}

InvoiceIds == {"inv_1"}

Entry(key, value) == [key |-> key, value |-> value]

ListParams == {QueryParams(TRUE, <<Entry("page", Num(1)), Entry("limit", Undef)>>)}

EmptyObject == Body("object", Undef, Undef, Undef)

Responses == {AxiosResponse(200, Str("60"), Body("object", Str("created"), Undef, Undef))}

Failures ==
  {NoResponseError("ECONNREFUSED"),
   AxiosError("Request failed with status code 401", TRUE, 401, NoHeader, EmptyObject),
   AxiosError("Request failed with status code 429", TRUE, 429, Str("60"), EmptyObject),
   AxiosError("Request failed with status code 500", TRUE, 500, NoHeader,
              Body("object", Undef, Str("Internal Server Error"), Undef))}

NewNodela ==
  /\ state = "new"
  /\ \E apiKey \in Keys, options \in OptionSets : Construct(apiKey, options)

ClientRequest == \E c \in CallIds, request \in RequestConfigs : CallRequest(c, request)

ClientVerb ==
  \E c \in CallIds, verb \in Verbs, url \in Urls, data \in DataSet, extra \in ExtraConfigs :
    CallVerb(c, verb, url, data, extra)

Create == \E c \in CallIds, params \in CreateParams : InvoicesCreate(c, params)

Verify == \E c \in CallIds, invoiceId \in InvoiceIds : InvoicesVerify(c, invoiceId)

List == \E c \in CallIds, params \in ListParams : TransactionsList(c, params)

Respond == \E c \in CallIds, response \in Responses : TransportResponds(c, response)

Fail == \E c \in CallIds, error \in Failures : TransportFails(c, error)

SetupFailure == "Request setup failed"

FailSetup == \E c \in CallIds : SetupFails(c, SetupFailure)

Next ==
  \/ NewNodela
  \/ ClientRequest
  \/ ClientVerb
  \/ Create
  \/ Verify
  \/ List
  \/ Respond
  \/ Fail
  \/ FailSetup

Spec == Init /\ [][Next]_vars

(***************************************************************************)
(* The constructor alone, over every kind of argument.                     *)
(***************************************************************************)
AllKeys ==
  {Undef, Null, Num(12345), AnObject, Str(""), Str("   "), Str("sk_test_abc123"),
   Str("nk_abc123"), Str("nk_test"), Str("NK_TEST_abc"), Str(" nk_test_x"),
   Str("xnk_live_abc"), Str("nk_test_"), Str("nk_test_x"), Str("nk_live_x"),
   Str("nk_live_ x "), ValidKey}

Timeouts == {Undef, Null, Str("fast"), NaN, Num(-1000), Num(-1), Num(0), Num(1), Num(5000)}

RetryCounts == {Undef, Null, Str("three"), NaN, Num(-1), Num(0), Num(1), Num(3)}

Environments == {Undef, Null, Str("production"), Str("sandbox"), Str("staging"), Str("")}

AllOptions ==
  {NoOptions} \cup
  {Options(TRUE, timeout, maxRetries, environment) :
     timeout \in Timeouts, maxRetries \in RetryCounts, environment \in Environments}

NewNodelaAny ==
  /\ state = "new"
  /\ \E apiKey \in AllKeys, options \in AllOptions : Construct(apiKey, options)

NextConfig ==
  \/ NewNodelaAny
  \/ GetConfig

SpecConfig == Init /\ [][NextConfig]_vars

(***************************************************************************)
(* The stored configuration and its copies: one facade, one call of any    *)
(* public operation with any answer, getConfig, and a caller that assigns  *)
(* to the properties of the objects getConfig handed out.                  *)
(***************************************************************************)
HackedKey == Str("nk_test_hacked")

\* the assignments of JavaScript values to a property of a returned object
Mutations ==
  {[key |-> "apiKey", value |-> HackedKey],
   [key |-> "environment", value |-> Str("staging")]}

EvilURL == "https://evil.example"

FrameVerb ==
  \E verb \in Verbs, url \in Urls, data \in DataSet, extra \in ExtraConfigs :
    CallVerb(1, verb, url, data, extra)

FrameCreate == \E params \in CreateParams : InvoicesCreate(1, params)

FrameVerify == \E invoiceId \in InvoiceIds : InvoicesVerify(1, invoiceId)

FrameList == \E params \in ListParams : TransactionsList(1, params)

FrameRespond == \E response \in Responses : TransportResponds(1, response)

FrameFail == \E error \in Failures : TransportFails(1, error)

Mutate ==
  \E i \in 1..MaxCopies :
    \/ \E m \in Mutations : MutateReturned(i, m.key, m.value)
    \/ MutateReturned(i, "baseURL", EvilURL)

NextFrame ==
  \/ NewNodela
  \/ FrameVerb
  \/ FrameCreate
  \/ FrameVerify
  \/ FrameList
  \/ FrameRespond
  \/ FrameFail
  \/ GetConfig
  \/ Mutate

SpecFrame == Init /\ [][NextFrame]_vars

(***************************************************************************)
(* The resources alone: one call of a resource method on a facade built    *)
(* with the defaults, over every kind of argument, and its answer.         *)
(***************************************************************************)
NewDefaultNodela == Construct(ValidKey, NoOptions)

LowerChar(c) ==
  IF \E i \in 1..Len(UpperCase) : CharAt(UpperCase, i) = c
  THEN CharAt(LowerCase, CHOOSE i \in 1..Len(UpperCase) : CharAt(UpperCase, i) = c)
  ELSE c

\* a supported code in upper case, in lower case and capitalised
CaseForms(code) ==
  {code,
   LowerChar(CharAt(code, 1)) \o LowerChar(CharAt(code, 2)) \o LowerChar(CharAt(code, 3)),
   CharAt(code, 1) \o LowerChar(CharAt(code, 2)) \o LowerChar(CharAt(code, 3))}

SupportedSpellings ==
  UNION {CaseForms(SUPPORTED_CURRENCIES[i]) : i \in 1..Len(SUPPORTED_CURRENCIES)}

UnsupportedSpellings ==
  {"XYZ", "xyz", "FAKE", "INVALID", "", "US", "USDD", " USD", "usd ", "U$D", "BTC"}

AllCreateParams ==
  {InvoiceParams(amount, currency, reference) :
     amount \in {50, 100},
     currency \in SupportedSpellings \cup UnsupportedSpellings,
     reference \in {"", "order-1"}}

AllInvoiceIds == {"inv_1", "inv_abc123", "", "a/b", "inv 1", "verify"}

AllResponses ==
  {AxiosResponse(200, NoHeader, data) :
     data \in {InvoiceBody(NoPayment), InvoiceBody(Payment(<<>>)),
               InvoiceBody(Payment(<<"0xabc">>)), InvoiceBody(Payment(<<"0xabc", "0xdef">>)),
               Body("object", Str("created"), Undef, Undef), Body("null", Undef, Undef, Undef)}}

\* the keys and the values of the params of a query
QueryKeys == {"page", "limit", "my key"}

QueryValues == {Undef, Null, Num(0), Num(10), Str(""), Str("a&b=c d")}

\* the orders in which an object can have been given some of the keys
KeyOrders ==
  {ks \in UNION {[1..n -> QueryKeys] : n \in 0..Cardinality(QueryKeys)} :
     \A i, j \in DOMAIN ks : i # j => ks[i] # ks[j]}

\* undefined, {} and every object over the keys and the values
AllListParams ==
  {NoParams} \cup
  UNION {{QueryParams(TRUE, [i \in DOMAIN ks |-> Entry(ks[i], vs[i])]) :
            vs \in [DOMAIN ks -> QueryValues]} : ks \in KeyOrders}

CreateAny ==
  /\ calls[1].pc = "idle"
  /\ \E params \in AllCreateParams : InvoicesCreate(1, params)

VerifyAny ==
  /\ calls[1].pc = "idle"
  /\ \E invoiceId \in AllInvoiceIds : InvoicesVerify(1, invoiceId)

ListAny ==
  /\ calls[1].pc = "idle"
  /\ \E params \in AllListParams : TransactionsList(1, params)

RespondAny ==
  /\ calls[1].pc = "pending"
  /\ \E response \in AllResponses : TransportResponds(1, response)

NextResources ==
  \/ NewDefaultNodela
  \/ CreateAny
  \/ VerifyAny
  \/ ListAny
  \/ RespondAny

SpecResources == Init /\ [][NextResources]_vars

(***************************************************************************)
(* The helpers and constructors that depend on their arguments only, each  *)
(* evaluated on its own over every kind of argument.                       *)
(***************************************************************************)
BasePaths == {InvoicesBasePath, TransactionsBasePath, "/v1/test"}

SegmentValues == {Str("a"), Str(""), Str("b"), Str("123"), Num(0), Num(42)}

AllSegments == UNION {[1..n -> SegmentValues] : n \in 0..MaxSegments}

ErrorKinds == {"ValidationError", "AuthenticationError", "RateLimitError", "APIError"}

ErrorMessages ==
  {Undef, Str(""), Str("x"), Str("Invalid currency"), Str("API_ERROR"),
   Str("Rate limit exceeded")}

ErrorStatusCodes == {Undef, Num(0), Num(401), Num(429), Num(500)}

ErrorDetails == {NoDetails, DataDetails(EmptyObject), OriginalErrorDetails("ECONNREFUSED")}

RetryAfterValues == {Undef, NaN, Num(0), Num(60)}

BuildAnyPath ==
  /\ evaluated = NotEvaluated
  /\ \E basePath \in BasePaths, segments \in AllSegments : BuildPath(basePath, segments)

NewAnyError ==
  /\ evaluated = NotEvaluated
  /\ \E kind \in ErrorKinds, message \in ErrorMessages, statusCode \in ErrorStatusCodes,
        details \in ErrorDetails, retryAfter \in RetryAfterValues :
       NewError(kind, message, statusCode, details, retryAfter)

NextPure ==
  \/ BuildAnyPath
  \/ NewAnyError

SpecPure == Init /\ [][NextPure]_vars

(***************************************************************************)
(* The classification of failures alone: one GET on a facade built with    *)
(* the defaults, failing in every way the transport can fail.              *)
(***************************************************************************)
HeaderAlphabet == {"0", "3", "6", "a", " ", "-"}

RetryAfterHeaders ==
  {NoHeader} \cup {Str(h) : h \in StringsUpTo(HeaderAlphabet, MaxHeaderLen)}

Statuses == {400, 401, 403, 404, 429, 500, 503}

MessageValues == {Undef, Null, Num(7), AnObject, AnArray, Str(""), Str("X")}
ErrorValues == {Undef, Null, Num(7), AnArray, Str(""), Str("E")}
NestedMessageValues == {Undef, Null, Num(7), AnObject, Str(""), Str("N")}

Bodies ==
  {Body("undefined", Undef, Undef, Undef), Body("null", Undef, Undef, Undef),
   Body("string", Undef, Undef, Undef), Body("number", Undef, Undef, Undef)}
  \cup {Body("object", m, e, Undef) : m \in MessageValues, e \in ErrorValues}
  \cup {Body("object", m, AnObject, n) : m \in MessageValues, n \in NestedMessageValues}

Descriptions == {"ECONNREFUSED", "timeout of 5000ms exceeded", ""}

AllFailures ==
  {NoResponseError(d) : d \in Descriptions} \cup
  {AxiosError("Request failed", TRUE, status, header, data) :
     status \in Statuses, header \in RetryAfterHeaders, data \in Bodies}

GetTest == CallVerb(1, "get", "/v1/test", NoData, NoRequestConfig)

FailAny ==
  /\ calls[1].pc = "pending"
  /\ \E error \in AllFailures : TransportFails(1, error)

NextClassify ==
  \/ NewDefaultNodela
  \/ GetTest
  \/ FailAny

SpecClassify == Init /\ [][NextClassify]_vars

(***************************************************************************)
(* Every way the library raises an error: the constructor on any arguments,*)
(* and, on a facade built with the defaults, invoices.create on any        *)
(* currency and a GET failing in every way the transport can fail.         *)
(***************************************************************************)
BuiltWithDefaults ==
  /\ state = "ready"
  /\ args.apiKey = ValidKey
  /\ args.options = NoOptions

ErrorsCreate == BuiltWithDefaults /\ CreateAny

ErrorsGet == BuiltWithDefaults /\ GetTest

\* the transport fails the GET (a posted invoice is left unanswered)
ErrorsFail == calls[1].op = "get" /\ FailAny

NextErrors ==
  \/ NewNodelaAny
  \/ ErrorsCreate
  \/ ErrorsGet
  \/ ErrorsFail

SpecErrors == Init /\ [][NextErrors]_vars

(***************************************************************************)
(* The verb wrappers alone: one call of any wrapper on a facade built with *)
(* the defaults, with extra options that name a method, a url, a body and  *)
(* a timeout of their own.                                                 *)
(***************************************************************************)
VerbUrls == {"/v1/test", "/v1/invoices", ""}

VerbData ==
  {NoData, InvoiceParams(100, "USD", "order-1"), InvoiceParams(50, "NGN", "")}

ExtraData == {NoData, InvoiceParams(1, "EUR", "extra")}

ExtraTimeouts == {Num(9), Num(30000), Num(0)}

\* no extra options, or extra options with a method, a url and a timeout
AllExtraConfigs ==
  {NoRequestConfig} \cup
  {AxiosRequestConfig(Str(method), Str(EvilURL), data, timeout) :
     method \in {"GET", "DELETE"}, data \in ExtraData, timeout \in ExtraTimeouts}

VerbAny ==
  \E verb \in Verbs, url \in VerbUrls, data \in VerbData, extra \in AllExtraConfigs :
    CallVerb(1, verb, url, data, extra)

NextVerbs ==
  \/ NewDefaultNodela
  \/ VerbAny
  \/ RespondAny

SpecVerbs == Init /\ [][NextVerbs]_vars

(***************************************************************************)
(* withRetry alone: any maxAttempts from 0 to MaxAttempts or none, around  *)
(* an fn that settles each time with a value or with any kind of error.    *)
(* RetrySpec allows every step; LiveRetrySpec adds that a pending promise  *)
(* of fn settles and that a timer that was set fires.                      *)
(***************************************************************************)
MaxAttemptsArguments == {Undef} \cup {Num(n) : n \in 0..MaxAttempts}

FnValues == {InvoiceBody(NoPayment)}

FnErrors ==
  {RateLimitError(RateLimitMessage, retryAfter) :
     retryAfter \in {Undef, NaN, Num(0), Num(2), Num(-3)}}
  \cup {APIError(DefaultAPIMessage(status), Num(status), NoDetails) :
          status \in {400, 404, 499, 500, 503}}
  \cup {APIError(NetworkErrorMessage, Num(0), NoDetails),
        APIError("no status", Undef, NoDetails),
        AuthenticationError(DefaultAuthMessage),
        ValidationError("Invalid amount", NoDetails),
        PlainError("Unsupported currency: XYZ")}

FnOutcomes ==
  {FnOutcome(TRUE, value, NoError) : value \in FnValues}
  \cup {FnOutcome(FALSE, NoBody, error) : error \in FnErrors}

StartRetry == \E maxAttempts \in MaxAttemptsArguments : WithRetry(maxAttempts)

FnSettlesAny == \E outcome \in FnOutcomes : FnSettles(outcome)

NextRetry ==
  \/ StartRetry
  \/ FnSettlesAny
  \/ TimerFires

RetrySpec == Init /\ [][NextRetry]_vars

LiveRetrySpec == RetrySpec /\ WF_vars(FnSettlesAny) /\ WF_vars(TimerFires)

(***************************************************************************)
(* Properties.                                                             *)
(***************************************************************************)
\* the calls whose request the transport failed
Failed == {c \in CallIds : calls[c].pc = "rejected" /\ calls[c].dispatched}

\* the failure the transport gave a failed call
FailureOf(c) == calls[c].outcome.error

\* the calls that failed with a response of the given status
FailedWith(status) ==
  {c \in Failed : FailureOf(c).hasResponse /\ FailureOf(c).status = status}

\* C1: a failed response with status 401 is rejected with an
\* AuthenticationError of status code 401, one with status 429 with a
\* RateLimitError of status code 429, and one with any other status with an
\* APIError whose status code is the status of the response.
C1_ClassificationByStatus ==
  \A c \in Failed :
    FailureOf(c).hasResponse =>
      LET status == FailureOf(c).status
          e == calls[c].error
      IN /\ status = 401 => e.name = "AuthenticationError" /\ e.statusCode = Num(401)
         /\ status = 429 => e.name = "RateLimitError" /\ e.statusCode = Num(429)
         /\ status \notin {401, 429} => e.name = "APIError" /\ e.statusCode = Num(status)
         /\ e.name \in {"AuthenticationError", "RateLimitError", "APIError"}

\* a response of status 429 was classified
C1_Witness ==
  \E c \in FailedWith(429) :
    calls[c].error.name = "RateLimitError" /\ calls[c].error.statusCode = Num(429)

\* C2: a failure with no response is rejected with an APIError whose message
\* is 'Network error occurred', whose status code is 0 and whose details are
\* { originalError: the failure's description }.
C2_NetworkError ==
  \A c \in Failed :
    ~FailureOf(c).hasResponse =>
      /\ calls[c].error.name = "APIError"
      /\ calls[c].error.code = Str("API_ERROR")
      /\ calls[c].error.message = "Network error occurred"
      /\ calls[c].error.statusCode = Num(0)
      /\ calls[c].error.details.k = "originalError"
      /\ calls[c].error.details.originalError = FailureOf(c).message

C2_Witness ==
  \E c \in Failed :
    /\ ~FailureOf(c).hasResponse
    /\ FailureOf(c).message = "ECONNREFUSED"
    /\ calls[c].error.details.originalError = "ECONNREFUSED"

\* C3 as claimed: for a 401 response the message of the AuthenticationError
\* is body.message whenever that is a string, and the default message when
\* the body carries no message.
C3_MessageOfAnyString ==
  \A c \in FailedWith(401) :
    LET m == BodyMessage(FailureOf(c).data)
    IN /\ m.t = "string" => calls[c].error.message = m.s
       /\ m.t = "undefined" =>
            calls[c].error.message = "Invalid API key or unauthorized access"

\* C3 as amended: for a 401 response the message of the AuthenticationError
\* is body.message whenever that is a non-empty string, and the default
\* message when the body carries no message or an empty one.
C3_MessageOfNonEmptyString ==
  \A c \in FailedWith(401) :
    LET m == BodyMessage(FailureOf(c).data)
    IN /\ m.t = "string" /\ m.s # "" => calls[c].error.message = m.s
       /\ m.t = "undefined" \/ m = Str("") =>
            calls[c].error.message = "Invalid API key or unauthorized access"

C3_Witness ==
  /\ \E c \in FailedWith(401) :
       /\ FailureOf(c).data.t = "object"
       /\ FailureOf(c).data.message = Str("X")
       /\ calls[c].error.message = "X"

\* the value of a string of decimal digits, read from its last digit
RECURSIVE DecimalValue(_)
DecimalValue(s) ==
  IF Len(s) = 0 THEN 0
  ELSE 10 * DecimalValue(SubSeq(s, 1, Len(s) - 1)) + DigitValue(CharAt(s, Len(s)))

IsDecimal(s) == Len(s) > 0 /\ \A i \in 1..Len(s) : CharAt(s, i) \in Digits

\* C4: for a 429 response, retryAfter is the integer the retry-after header
\* spells when the header is present ("60" gives 60, "0" gives 0), and is
\* undefined when the response has no retry-after header.
C4_RetryAfter ==
  \A c \in FailedWith(429) :
    LET header == FailureOf(c).retryAfter
    IN /\ header = NoHeader => calls[c].error.retryAfter = Undef
       /\ header.t = "string" /\ IsDecimal(header.s) =>
            calls[c].error.retryAfter = Num(DecimalValue(header.s))
       /\ header = Str("60") => calls[c].error.retryAfter = Num(60)

C4_Witness ==
  /\ \E c \in FailedWith(429) :
       FailureOf(c).retryAfter = Str("60") /\ calls[c].error.retryAfter = Num(60)

\* the message the claim C5 gives a body, a string counting as available
\* only if it passes the test given
ClaimedMessage(status, data, Available(_)) ==
  LET m == BodyMessage(data)
      e == BodyError(data)
      n == ErrorFieldMessage(data)
  IN IF m.t = "string" /\ Available(m.s) THEN m.s
     ELSE IF e.t = "string" /\ Available(e.s) THEN e.s
     ELSE IF e.t = "object" /\ n.t = "string" /\ Available(n.s) THEN n.s
     ELSE "API request failed with status code " \o ToString(status)

AnyString(s) == TRUE
NonEmpty(s) == s # ""

\* the failed calls C5 is about
FailedWithOther == {c \in Failed : FailureOf(c).hasResponse /\ FailureOf(c).status \notin {401, 429}}

TypedKinds == {"AuthenticationError", "RateLimitError", "APIError"}

\* C6: every failure of a dispatcher call, made directly or by a resource
\* method, failures raised while the request is set up included, reaches the
\* caller as an AuthenticationError, a RateLimitError or an APIError.
C6_OnlyTypedErrors ==
  \A c \in Failed :
    /\ calls[c].outcome.k = "error"
    /\ calls[c].error.name \in TypedKinds
    /\ calls[c].error.code \in {Str("AUTHENTICATION_ERROR"), Str("RATE_LIMIT_ERROR"),
                                Str("API_ERROR")}

\* a resource method failed while its request was set up
C6_Witness ==
  \E c \in Failed :
    /\ calls[c].op \in {"invoices.create", "invoices.verify", "transactions.list"}
    /\ FailureOf(c).message = SetupFailure
    /\ calls[c].error.name = "APIError"

\* the requests given to the transport for call c
RequestsOf(c) == {i \in 1..Len(transport) : transport[i].call = c}

\* C7: every dispatcher call makes exactly one transport request, whether it
\* is pending, has succeeded or has failed, and whatever maxRetries is: the
\* transport has been given as many requests as dispatcher calls were made.
C7_OneRequestPerCall ==
  /\ \A c \in CallIds :
       Cardinality(RequestsOf(c)) = IF calls[c].dispatched THEN 1 ELSE 0
  /\ Len(transport) = Cardinality({c \in CallIds : calls[c].dispatched})

\* every call was made and has ended, one of them failed, and maxRetries is 3
C7_Witness ==
  /\ config.maxRetries = Num(3)
  /\ \A c \in CallIds : calls[c].dispatched /\ calls[c].pc \in {"resolved", "rejected"}
  /\ Failed # {}
  /\ Len(transport) = Cardinality(CallIds)

\* C8: when the transport request succeeds, the call resolves to the body of
\* the response and nothing else.
C8_ResolvesToBody ==
  \A c \in CallIds :
    calls[c].pc = "resolved" =>
      /\ calls[c].outcome.k = "response"
      /\ calls[c].value = calls[c].outcome.response.data

C8_Witness ==
  \E c \in CallIds :
    /\ calls[c].pc = "resolved"
    /\ calls[c].op = "invoices.create"
    /\ calls[c].outcome.response.retryAfter = Str("60")
    /\ calls[c].value = Body("object", Str("created"), Undef, Undef)

\* the credential is a string that starts with one of the two prefixes
HasNodelaPrefix(apiKey) ==
  /\ apiKey.t = "string"
  /\ \/ (Len(apiKey.s) >= 8 /\ SubSeq(apiKey.s, 1, 8) = "nk_test_")
     \/ (Len(apiKey.s) >= 8 /\ SubSeq(apiKey.s, 1, 8) = "nk_live_")

\* C9: construction with a credential that does not start with 'nk_test_' or
\* 'nk_live_' fails with a ValidationError, and a string that starts with one
\* of them passes the check of the credential.
C9_InvalidKeyIsValidationError ==
  state # "new" =>
    IF HasNodelaPrefix(args.apiKey)
    THEN thrown.message # InvalidApiKeyMessage
    ELSE state = "failed" /\ thrown.name = "ValidationError"

\* the timeout rule of the constructor rejects the value
TimeoutRejected(v) == v # Undef /\ (v.t # "number" \/ (~IsNaN(v) /\ v.n <= 0))

IsBelow(v, bound) == v.t = "number" /\ ~IsNaN(v) /\ v.n < bound

\* the parts of C10 that hold as claimed: with a valid credential, every
\* provided timeout <= 0 fails with the timeout error, timeout 1 and
\* maxRetries 0 are accepted, and an environment that is provided and is
\* neither 'production' nor 'sandbox' is rejected
C10_Rest ==
  state # "new" /\ HasNodelaPrefix(args.apiKey) /\ args.options.present =>
    LET o == args.options
    IN /\ IsBelow(o.timeout, 1) =>
            state = "failed" /\ thrown.message = InvalidTimeoutMessage
       /\ o.timeout = Num(1) /\ o.maxRetries = Num(0)
            /\ o.environment \in {Undef, Str("production"), Str("sandbox")} =>
            state = "ready"
       /\ o.environment \notin {Undef, Str("production"), Str("sandbox")} =>
            state = "failed"

\* C10 as claimed: with a valid credential, construction fails with the
\* timeout error for every provided timeout <= 0 and with the maxRetries
\* error for every provided maxRetries < 0; timeout 1 and maxRetries 0 are
\* accepted, and an environment other than 'production' or 'sandbox' is
\* rejected.
C10_EveryNegativeMaxRetries ==
  /\ C10_Rest
  /\ state # "new" /\ HasNodelaPrefix(args.apiKey) /\ args.options.present =>
       (IsBelow(args.options.maxRetries, 0) =>
          state = "failed" /\ thrown.message = InvalidMaxRetriesMessage)

\* C10 as amended: the maxRetries error is the one thrown for every provided
\* maxRetries < 0 when the timeout is unset or passes its own rule; the rest
\* as claimed.
C10_NegativeMaxRetriesAfterTimeout ==
  /\ C10_Rest
  /\ state # "new" /\ HasNodelaPrefix(args.apiKey) /\ args.options.present =>
       (IsBelow(args.options.maxRetries, 0) /\ ~TimeoutRejected(args.options.timeout) =>
          state = "failed" /\ thrown.message = InvalidMaxRetriesMessage)

\* a timeout of 0 was rejected with a valid credential
C10_Witness ==
  /\ state = "failed"
  /\ HasNodelaPrefix(args.apiKey)
  /\ args.options.present
  /\ args.options.timeout = Num(0)
  /\ args.options.maxRetries = Num(0)
  /\ thrown.message = InvalidTimeoutMessage

\* the value an option resolves to: the given default when it was left unset
ResolvedOption(option, default) == IF option = Undef THEN default ELSE option

\* what the arguments of the constructor resolve to
ResolvedValues ==
  [apiKey |-> args.apiKey,
   timeout |-> ResolvedOption(args.options.timeout, Num(5000)),
   maxRetries |-> ResolvedOption(args.options.maxRetries, Num(3)),
   environment |-> ResolvedOption(args.options.environment, Str("production"))]

\* C11: after a successful construction every option left unset has its
\* default (timeout 5000, maxRetries 3, environment 'production') and every
\* option provided is stored as given; get(key) and every getConfig() report
\* these values and the given credential.
C11_ResolvedValues ==
  state = "ready" =>
    /\ \A key \in DOMAIN ResolvedValues : configGet(config, key) = ResolvedValues[key]
    /\ \A i \in 1..Len(returned) :
         \A key \in DOMAIN ResolvedValues : returned[i].seen[key] = ResolvedValues[key]

\* getConfig was called on a facade built with maxRetries 0, environment
\* 'sandbox' and no timeout
C11_Witness ==
  /\ state = "ready"
  /\ args.options.present
  /\ args.options.timeout = Undef
  /\ args.options.maxRetries = Num(0)
  /\ args.options.environment = Str("sandbox")
  /\ Len(returned) > 0
  /\ returned[1].seen.timeout = Num(5000)
  /\ returned[1].seen.maxRetries = Num(0)

\* the maxRetries rule of the constructor rejects the value
MaxRetriesRejected(v) == v # Undef /\ (v.t # "number" \/ IsBelow(v, 0))

\* the environment rule of the constructor rejects the value
EnvironmentRejected(v) == v \notin {Undef, Str("production"), Str("sandbox")}

\* the arguments pass the rule of the credential and, when options are
\* given, the rule of each option
PassesEveryRule(apiKey, options) ==
  /\ HasNodelaPrefix(apiKey)
  /\ options.present =>
       /\ ~TimeoutRejected(options.timeout)
       /\ ~MaxRetriesRejected(options.maxRetries)
       /\ ~EnvironmentRejected(options.environment)

\* C12: construction validates before it allocates: with an invalid
\* credential or an invalid option the constructor throws and no transport
\* handle has been created, and a transport handle exists only for arguments
\* that passed every validation rule.
C12_ValidatesBeforeAllocating ==
  /\ state # "new" /\ ~PassesEveryRule(args.apiKey, args.options) =>
       state = "failed" /\ ~axiosInstance.created
  /\ state = "failed" => ~axiosInstance.created
  /\ axiosInstance.created =>
       state = "ready" /\ PassesEveryRule(args.apiKey, args.options)

\* the constructor threw for a timeout of -1 given with a valid credential,
\* and no transport handle exists
C12_Witness ==
  /\ state = "failed"
  /\ args.apiKey = ValidKey
  /\ args.options.present
  /\ args.options.timeout = Num(-1)
  /\ thrown.message = InvalidTimeoutMessage
  /\ ~axiosInstance.created

\* C13: getConfig() returns a fresh copy on every call: whatever getConfig
\* calls were made and whatever the caller assigned to the objects it was
\* handed, every getConfig() returned, and get(key) returns, the values
\* resolved at construction, and two returned objects were equal in content
\* when returned but are never the same object.
C13_FreshCopies ==
  state = "ready" =>
    /\ \A key \in DOMAIN ResolvedValues : configGet(config, key) = ResolvedValues[key]
    /\ configGet(config, "baseURL") = BaseURL
    /\ \A i \in 1..Len(returned) :
         /\ \A key \in DOMAIN ResolvedValues : returned[i].seen[key] = ResolvedValues[key]
         /\ returned[i].seen.baseURL = BaseURL
    /\ \A i, j \in 1..Len(returned) :
         /\ returned[i].seen = returned[j].seen
         /\ i # j => returned[i].ref # returned[j].ref

\* two objects were handed out; the caller replaced the credential and the
\* base URL of the first, and the second holds the values of construction
C13_Witness ==
  /\ state = "ready"
  /\ Len(returned) = 2
  /\ Deref(returned[1].ref, config, heap).apiKey = HackedKey
  /\ Deref(returned[1].ref, config, heap).baseURL = EvilURL
  /\ Deref(returned[2].ref, config, heap).apiKey = args.apiKey
  /\ returned[2].seen.apiKey = args.apiKey
  /\ config.apiKey = args.apiKey

\* C14: the stored configuration never changes after construction: no step
\* of invoices.create, invoices.verify, transactions.list, getConfig, a
\* dispatcher verb, an answer or a failure of the transport, or a caller's
\* assignment to a returned object changes the credential, the base URL, the
\* timeout, maxRetries or the environment.
C14_ConfigNeverChanges ==
  [][state = "ready" => \A key \in ConfigKeys : config'[key] = config[key]]_vars

\* a call failed, another object was handed out and changed by the caller,
\* and the facade still holds the arguments of its construction
C14_Witness ==
  /\ state = "ready"
  /\ calls[1].pc = "rejected"
  /\ Len(returned) > 0
  /\ heap[1].environment = Str("staging")
  /\ config.apiKey = args.apiKey
  /\ config.environment # Str("staging")

\* sub occurs in s
Contains(s, sub) ==
  \E i \in 1..(Len(s) - Len(sub) + 1) : SubSeq(s, i, i + Len(sub) - 1) = sub

SupportedSet == {SUPPORTED_CURRENCIES[i] : i \in 1..Len(SUPPORTED_CURRENCIES)}

\* the uppercased form of the currency is in the supported set
IsSupported(currency) == toUpperCase(currency) \in SupportedSet

\* the request configs the transport was given for call c, in order
SentFor(c) ==
  LET mine == SelectSeq(transport, LAMBDA r : r.call = c)
  IN [i \in 1..Len(mine) |-> mine[i].config]

\* the calls of invoices.create
Created(c) == calls[c].op = "invoices.create"

\* the parts of C15 that hold as claimed: a currency whose uppercased form is
\* not supported makes invoices.create fail without a transport call, with a
\* message that contains every supported code
C15_Rest ==
  \A c \in CallIds :
    Created(c) /\ ~IsSupported(given[c].params.currency) =>
      /\ calls[c].pc = "rejected"
      /\ ~calls[c].dispatched
      /\ SentFor(c) = <<>>
      /\ \A code \in SupportedSet : Contains(calls[c].error.message, code)

\* C15: for every currency whose uppercased form is not in the supported
\* set, invoices.create fails with a ValidationError without making any
\* transport call, and the error message contains every supported code.
C15_UnsupportedIsValidationError ==
  /\ C15_Rest
  /\ \A c \in CallIds :
       Created(c) /\ ~IsSupported(given[c].params.currency) =>
         calls[c].error.name = "ValidationError"

\* C16: for every currency whose uppercased form is in the supported set, in
\* any letter case, invoices.create sends exactly one POST to '/v1/invoices'
\* whose body is the given params with the currency replaced by its
\* uppercased form and every other field unchanged.
C16_PostsUppercased ==
  \A c \in CallIds :
    Created(c) /\ IsSupported(given[c].params.currency) =>
      /\ calls[c].dispatched
      /\ Len(SentFor(c)) = 1
      /\ LET sent == SentFor(c)[1]
         IN /\ sent.method = Str("POST")
            /\ sent.url = Str("/v1/invoices")
            /\ sent.data.currency = toUpperCase(given[c].params.currency)
            /\ sent.data.amount = given[c].params.amount
            /\ sent.data.reference = given[c].params.reference
            /\ sent.data.k = given[c].params.k

\* invoices.create was given 'ngn', and 'NGN' went out with the same amount
\* and reference
C16_Witness ==
  /\ Created(1)
  /\ given[1].params = InvoiceParams(50, "ngn", "order-1")
  /\ calls[1].pc = "resolved"
  /\ Len(transport) = 1
  /\ transport[1].config.data = InvoiceParams(50, "NGN", "order-1")

\* the calls of invoices.verify
Verified(c) == calls[c].op = "invoices.verify"

\* C17: invoices.verify(id) issues exactly one GET request, to
\* '/v1/invoices/<id>/verify', and resolves to the response body unchanged,
\* the contents of its nested payment.tx_hash included.
C17_VerifyGetsAndReturnsBody ==
  \A c \in CallIds :
    Verified(c) =>
      /\ Len(SentFor(c)) = 1
      /\ SentFor(c)[1].method = Str("GET")
      /\ SentFor(c)[1].url = Str("/v1/invoices/" \o given[c].invoiceId \o "/verify")
      /\ calls[c].pc = "resolved" =>
           /\ calls[c].value = calls[c].outcome.response.data
           /\ calls[c].value.payment.tx_hash
                = calls[c].outcome.response.data.payment.tx_hash

\* invoices.verify('inv_abc123') resolved to an envelope whose payment has
\* two transaction hashes
C17_Witness ==
  /\ Verified(1)
  /\ given[1].invoiceId = "inv_abc123"
  /\ calls[1].pc = "resolved"
  /\ transport[1].config.url = Str("/v1/invoices/inv_abc123/verify")
  /\ calls[1].value.payment = Payment(<<"0xabc", "0xdef">>)

\* the calls of transactions.list
Listed(c) == calls[c].op = "transactions.list"

\* the entries of the given params whose value is neither null nor
\* undefined, in the order given
Surviving(query) ==
  IF ~query.present THEN <<>>
  ELSE SelectSeq(query.entries, LAMBDA e : e.value # Null /\ e.value # Undef)

RECURSIVE Pairs(_)
\* the encoded key=value pairs of the entries, an '&' before all but the first
Pairs(entries) ==
  IF Len(entries) = 0 THEN ""
  ELSE LET last == entries[Len(entries)]
           pair == encodeURIComponent(last.key) \o "="
                     \o encodeURIComponent(ToJSString(last.value))
       IN IF Len(entries) = 1 THEN pair
          ELSE Pairs(SubSeq(entries, 1, Len(entries) - 1)) \o "&" \o pair

\* C18: transactions.list(params) issues a GET to '/v1/transactions' followed
\* by the query string: nothing when params is undefined, empty or holds only
\* null and undefined values, and otherwise '?' and the encoded key=value
\* pairs of exactly the params whose value is neither null nor undefined, in
\* insertion order, joined by '&' with no '&' before the first or after the
\* last.
C18_ListQueryString ==
  \A c \in CallIds :
    Listed(c) =>
      /\ Len(SentFor(c)) = 1
      /\ SentFor(c)[1].method = Str("GET")
      /\ LET kept == Surviving(given[c].query)
             url == SentFor(c)[1].url.s
         IN /\ SentFor(c)[1].url.t = "string"
            /\ kept = <<>> => url = "/v1/transactions"
            /\ kept # <<>> =>
                 /\ url = "/v1/transactions?" \o Pairs(kept)
                 /\ CharAt(url, Len("/v1/transactions?") + 1) # "&"
                 /\ CharAt(url, Len(url)) # "&"

\* transactions.list({ limit: 0, page: null, 'my key': 'a&b=c d' }) was
\* sent with the two surviving params, encoded, in the order given
C18_Witness ==
  /\ Listed(1)
  /\ given[1].query =
       QueryParams(TRUE, <<Entry("limit", Num(0)), Entry("page", Null),
                           Entry("my key", Str("a&b=c d"))>>)
  /\ transport[1].config.url = Str("/v1/transactions?limit=0&my%20key=a%26b%3Dc%20d")

RECURSIVE EachAfterSlash(_)
\* every segment in the given order, each preceded by one '/'
EachAfterSlash(segments) ==
  IF Len(segments) = 0 THEN ""
  ELSE EachAfterSlash(SubSeq(segments, 1, Len(segments) - 1))
         \o "/" \o ToJSString(segments[Len(segments)])

\* C19: buildPath(s1, ..., sn) is the base path followed by each segment in
\* the given order, each preceded by one '/'; an empty segment is kept:
\* buildPath('a', '', 'b') is base + '/a//b', buildPath('') is base + '/' and
\* buildPath() is the base path.
C19_BuildPath ==
  evaluated.fn = "buildPath" =>
    LET base == evaluated.basePath
        segments == evaluated.segments
    IN /\ evaluated.path = base \o EachAfterSlash(segments)
       /\ segments = <<Str("a"), Str(""), Str("b")>> => evaluated.path = base \o "/a//b"
       /\ segments = <<Str("")>> => evaluated.path = base \o "/"
       /\ segments = <<>> => evaluated.path = base

\* buildPath('a', '', 'b') was evaluated on the invoices resource
C19_Witness ==
  /\ evaluated.fn = "buildPath"
  /\ evaluated.basePath = "/v1/invoices"
  /\ evaluated.segments = <<Str("a"), Str(""), Str("b")>>
  /\ evaluated.path = "/v1/invoices/a//b"

\* the code the claim gives each kind of error
KindCode(kind) ==
  CASE kind = "ValidationError" -> "VALIDATION_ERROR"
    [] kind = "AuthenticationError" -> "AUTHENTICATION_ERROR"
    [] kind = "RateLimitError" -> "RATE_LIMIT_ERROR"
    [] kind = "APIError" -> "API_ERROR"

\* C20: every error of a kind carries that kind's code and fixed status,
\* whatever message it was built with: ValidationError VALIDATION_ERROR and
\* no status code, AuthenticationError AUTHENTICATION_ERROR and 401,
\* RateLimitError RATE_LIMIT_ERROR and 429, APIError API_ERROR; the four
\* codes are pairwise distinct.
C20_CodeAndStatusOfKind ==
  /\ \A k1, k2 \in ErrorKinds : k1 # k2 => KindCode(k1) # KindCode(k2)
  /\ evaluated.fn = "new" =>
       LET e == evaluated.error
       IN /\ e.code = Str(KindCode(evaluated.kind))
          /\ \A other \in ErrorKinds \ {evaluated.kind} : e.code # Str(KindCode(other))
          /\ evaluated.kind = "ValidationError" => e.statusCode = Undef
          /\ evaluated.kind = "AuthenticationError" => e.statusCode = Num(401)
          /\ evaluated.kind = "RateLimitError" => e.statusCode = Num(429)

\* a RateLimitError was built with the empty message
C20_Witness ==
  /\ evaluated.fn = "new"
  /\ evaluated.kind = "RateLimitError"
  /\ evaluated.error.message = ""
  /\ evaluated.error.code = Str("RATE_LIMIT_ERROR")
  /\ evaluated.error.statusCode = Num(429)

\* C21: AuthenticationError and RateLimitError are subclasses of APIError: a
\* handler that catches APIError catches every AuthenticationError and every
\* RateLimitError a call is rejected with, and a handler for SDKError catches
\* errors of all four kinds.
C21_CaughtAsAPIError ==
  /\ \A c \in Failed :
       /\ calls[c].error.name \in {"AuthenticationError", "RateLimitError"} =>
            InstanceOf(calls[c].error, "APIError")
       /\ calls[c].error.name \in ErrorKinds => InstanceOf(calls[c].error, "SDKError")
  /\ \A kind \in ErrorKinds : IsSubclass(kind, "SDKError")

\* call c has its result
Settled(c) == calls[c].pc \in {"resolved", "rejected"}

\* the kind of error and the status code a transport failure is due
KindOfFailure(failure) ==
  IF ~failure.hasResponse THEN "APIError"
  ELSE IF failure.status = 401 THEN "AuthenticationError"
  ELSE IF failure.status = 429 THEN "RateLimitError"
  ELSE "APIError"

StatusCodeOfFailure(failure) == IF failure.hasResponse THEN Num(failure.status) ELSE Num(0)

\* C22: with several calls on one facade in flight at once and their
\* transport outcomes arriving in any order, each call resolves with the body
\* or the typed error of its own outcome; no step changes the result of
\* another call, the configuration or the settings of the transport handle.
C22_EachCallItsOwnOutcome ==
  [][\A c \in CallIds :
       /\ Settled(c) => calls'[c] = calls[c]
       /\ calls[c].pc = "pending" /\ calls'[c].pc = "resolved" =>
            /\ calls'[c].outcome.k = "response"
            /\ calls'[c].value = calls'[c].outcome.response.data
            /\ \A d \in CallIds \ {c} : calls'[d] = calls[d]
       /\ calls[c].pc = "pending" /\ calls'[c].pc = "rejected" =>
            /\ calls'[c].outcome.k = "error"
            /\ calls'[c].error.name = KindOfFailure(calls'[c].outcome.error)
            /\ calls'[c].error.statusCode = StatusCodeOfFailure(calls'[c].outcome.error)
            /\ \A d \in CallIds \ {c} : calls'[d] = calls[d]
       /\ state = "ready" => config' = config /\ axiosInstance' = axiosInstance]_vars

\* the second call resolved while the first, made before it, is still in
\* flight
C22_Witness ==
  /\ Len(transport) = 2
  /\ calls[1].pc = "pending"
  /\ calls[2].pc = "resolved"
  /\ calls[2].value = calls[2].outcome.response.data

\* the message the three-step chain finds in a body, or the given default
ChainMessage(data, default) ==
  LET e == BodyError(data)
      n == ErrorFieldMessage(data)
  IN IF e.t = "string" THEN e.s
     ELSE IF e.t = "object" /\ n.t = "string" THEN n.s
     ELSE default

\* the 401 responses whose body.message is not a string
Failed401NoMessage ==
  {c \in FailedWith(401) : BodyMessage(FailureOf(c).data).t # "string"}

\* C23 as claimed: for a 401 response whose body.message is not a string,
\* the message of the AuthenticationError is body.error if that is a string,
\* else body.error.message if body.error is an object with a string message,
\* and only otherwise the default auth message.
C23_ThreeStepChain ==
  \A c \in Failed401NoMessage :
    calls[c].error.message =
      ChainMessage(FailureOf(c).data, "Invalid API key or unauthorized access")

\* C23 as amended: for a 401 response whose body.message is not a string,
\* the message of the AuthenticationError is the default auth message,
\* whatever body.error holds: body.error and body.error.message are not
\* consulted.
C23_MessageFieldOnly ==
  \A c \in Failed401NoMessage :
    calls[c].error.message = "Invalid API key or unauthorized access"

\* a 401 response with the body { error: 'E' } got the default message
C23_Witness ==
  \E c \in Failed401NoMessage :
    /\ FailureOf(c).data = Body("object", Undef, Str("E"), Undef)
    /\ calls[c].error.name = "AuthenticationError"
    /\ calls[c].error.message = "Invalid API key or unauthorized access"

\* the value is an integer
IsInteger(v) == v.t = "number" /\ ~IsNaN(v)

\* the header spells an integer: an optional sign and then digits only,
\* after optional leading white space
SpellsInteger(header) ==
  LET body == TrimStart(header)
      digits == IF Len(body) > 0 /\ CharAt(body, 1) \in {"-", "+"}
                THEN SubSeq(body, 2, Len(body)) ELSE body
  IN IsDecimal(digits)

\* C24: for a 429 response whose retry-after header is present but cannot be
\* parsed as an integer, the retryAfter of the RateLimitError is undefined;
\* retryAfter is always either undefined or an integer number of seconds.
C24_RetryAfterAbsentOrInteger ==
  \A c \in FailedWith(429) :
    LET header == FailureOf(c).retryAfter
        retryAfter == calls[c].error.retryAfter
    IN /\ retryAfter = Undef \/ IsInteger(retryAfter)
       /\ header.t = "string" /\ ~SpellsInteger(header.s) => retryAfter = Undef

\* the failed calls whose failure carries a response
FailedWithResponse == {c \in Failed : FailureOf(c).hasResponse}

\* C25: classification never raises on a malformed body: for every status
\* and every shape of body (undefined, null, a string, a number, an object
\* whose message or error is null, a number, an array or an object without a
\* string message) the call is rejected with one typed error of the kind of
\* its status, a field of the wrong type falling through to the next step of
\* the extraction or to the default message.
C25_NeverRaisesOnMalformedBody ==
  \A c \in FailedWithResponse :
    LET failure == FailureOf(c)
        e == calls[c].error
    IN /\ e.name = KindOfFailure(failure)
       /\ e.name \in TypedKinds
       /\ failure.data.t # "object" /\ failure.status \notin {401, 429} =>
            e.message = "API request failed with status code " \o ToString(failure.status)
       /\ failure.data.t # "object" /\ failure.status = 401 =>
            e.message = "Invalid API key or unauthorized access"
       /\ failure.status \notin {401, 429} =>
            e.message = ClaimedMessage(failure.status, failure.data, NonEmpty)

\* a 500 response whose message is a number and whose error is an array got
\* the default message
C25_Witness ==
  \E c \in FailedWithResponse :
    /\ FailureOf(c).status = 500
    /\ FailureOf(c).data = Body("object", Num(7), AnArray, Undef)
    /\ calls[c].error.name = "APIError"
    /\ calls[c].error.message = "API request failed with status code 500"

\* the rules the arguments fail, numbered in the order credential (1),
\* timeout (2), maxRetries (3), environment (4)
FailingRules(apiKey, options) ==
  {r \in 1..4 :
     \/ r = 1 /\ ~HasNodelaPrefix(apiKey)
     \/ r = 2 /\ options.present /\ TimeoutRejected(options.timeout)
     \/ r = 3 /\ options.present /\ MaxRetriesRejected(options.maxRetries)
     \/ r = 4 /\ options.present /\ EnvironmentRejected(options.environment)}

\* the message of the error of each rule
RuleMessage(r) ==
  CASE r = 1 -> InvalidApiKeyMessage
    [] r = 2 -> InvalidTimeoutMessage
    [] r = 3 -> InvalidMaxRetriesMessage
    [] r = 4 -> InvalidEnvironmentMessage

\* C26: the validation of the constructor is ordered and the first failing
\* rule wins: when more than one argument is invalid, the error thrown is
\* the one of the earliest failing rule in the order credential, timeout,
\* maxRetries, environment, never that of a later rule.
C26_FirstFailingRuleWins ==
  state # "new" =>
    LET failing == FailingRules(args.apiKey, args.options)
    IN IF failing = {} THEN state = "ready"
       ELSE /\ state = "failed"
            /\ \E first \in failing :
                 /\ \A r \in failing : first <= r
                 /\ thrown.message = RuleMessage(first)
                 /\ \A r \in failing \ {first} : thrown.message # RuleMessage(r)

\* a valid credential with maxRetries -1 and environment 'staging' failed
\* with the error of maxRetries
C26_Witness ==
  /\ state = "failed"
  /\ args.apiKey = ValidKey
  /\ args.options.timeout = Num(1)
  /\ args.options.maxRetries = Num(-1)
  /\ args.options.environment = Str("staging")
  /\ thrown.message = InvalidMaxRetriesMessage

\* the errors the library has raised: the one the constructor threw and
\* the one each rejected call was rejected with
Raised ==
  (IF state = "failed" THEN {thrown} ELSE {})
  \cup {calls[c].error : c \in {d \in CallIds : calls[d].pc = "rejected"}}

\* C27: every error the library produces has a non-empty message: for every
\* transport outcome (no response, or any status with any body, a body
\* whose message or error field is the empty string included) and for
\* every validation failure, the message of the error is a non-empty string.
C27_MessageNeverEmpty ==
  \A error \in Raised : error.message \in STRING /\ error.message # ""

\* a 500 whose body holds an empty message and an empty error was rejected
\* with the default message of the status
C27_Witness ==
  /\ calls[1].pc = "rejected"
  /\ calls[1].dispatched
  /\ FailureOf(1).hasResponse
  /\ FailureOf(1).status = 500
  /\ FailureOf(1).data = Body("object", Str(""), Str(""), Undef)
  /\ calls[1].error.message = DefaultAPIMessage(500)

\* the method each wrapper names
VerbMethod(verb) ==
  CASE verb = "get" -> "GET"
    [] verb = "post" -> "POST"
    [] verb = "put" -> "PUT"
    [] verb = "patch" -> "PATCH"
    [] verb = "delete" -> "DELETE"

\* the wrappers that take a body
BodyVerbs == {"post", "put", "patch"}

\* C28: each verb wrapper (get, post, put, patch, delete) sends exactly one
\* request whose method is the wrapper's verb and whose url (and, for
\* post/put/patch, data) are the wrapper's own arguments, with the caller's
\* extra options merged in; the extra options never override method, url
\* or data, and every other extra option (the timeout, and the data for
\* the wrappers that take no body) is passed through unchanged.
C28_VerbWrappers ==
  [][/\ \A verb \in Verbs, url \in VerbUrls, data \in VerbData, extra \in AllExtraConfigs :
          CallVerb(1, verb, url, data, extra) =>
            /\ Len(transport') = Len(transport) + 1
            /\ LET sent == transport'[Len(transport')]
               IN /\ sent.call = 1
                  /\ sent.config.method = Str(VerbMethod(verb))
                  /\ sent.config.url = Str(url)
                  /\ sent.config.data = IF verb \in BodyVerbs THEN data ELSE extra.data
                  /\ sent.config.timeout = extra.timeout
     /\ calls[1].pc # "idle" => transport' = transport]_vars

\* a post went out as a POST to the wrapper's url with the wrapper's body
\* and the timeout of extra options that also named a method, a url and a
\* body of their own; the one request stayed the only one once answered
C28_Witness ==
  /\ calls[1].pc = "resolved"
  /\ calls[1].op = "post"
  /\ Len(transport) = 1
  /\ transport[1].config =
       AxiosRequestConfig(Str("POST"), Str("/v1/invoices"),
                          InvoiceParams(50, "NGN", ""), Num(30000))

MayRetry(error) ==
  \/ InstanceOf(error, "RateLimitError") /\ error.retryAfter # Undef
  \/ /\ InstanceOf(error, "APIError")
     /\ TypeOf(error.statusCode) = "number"
     /\ ~IsNaN(error.statusCode)
     /\ error.statusCode.n >= 500

RetryDone == retry.pc \in {"returned", "threw"}

\* what holds of withRetry at every moment
RetrySafe ==
  LET outcomes == retry.outcomes
      n == Len(outcomes)
  IN \* fn is invoked at most maxAttempts times
     /\ n + (IF retry.pc = "calling" THEN 1 ELSE 0) <= retry.maxAttempts
     \* the first successful invocation is the last one, and its result is returned
     /\ \A i \in 1..n :
          outcomes[i].ok => i = n /\ retry.pc = "returned" /\ retry.value = outcomes[i].value
     /\ retry.pc = "returned" => n >= 1 /\ outcomes[n].ok
     \* an error that may not be retried is rethrown at once
     /\ \A i \in 1..n :
          ~outcomes[i].ok /\ ~MayRetry(outcomes[i].error) =>
            i = n /\ retry.pc = "threw" /\ retry.error = outcomes[i].error
     \* when every attempt failed, the error of the last one is thrown
     /\ (n >= 1 /\ n = retry.maxAttempts /\ \A i \in 1..n : ~outcomes[i].ok) =>
          retry.pc = "threw" /\ retry.error = outcomes[n].error
     /\ retry.pc = "threw" /\ n >= 1 => retry.error = outcomes[n].error

\* C30: the documented caller-side wrapper withRetry(fn, maxAttempts) always
\* terminates after invoking fn at most maxAttempts times: it returns the
\* result of the first successful invocation, rethrows at once any error
\* that is neither a RateLimitError carrying retryAfter nor an APIError
\* with statusCode >= 500, and when all attempts fail throws the error of
\* the last attempt.
C30_WithRetryTerminates ==
  /\ []RetrySafe
  /\ (retry.pc # "idle") ~> RetryDone

\* three attempts all failed, with a rate limit of 2 seconds, a 500 and a
\* 503: the wrapper slept 2000 ms twice and threw the 503
C30_Witness ==
  /\ retry.pc = "threw"
  /\ retry.maxAttempts = 3
  /\ Len(retry.outcomes) = 3
  /\ retry.outcomes[1].error = RateLimitError(RateLimitMessage, Num(2))
  /\ retry.outcomes[2].error = APIError(DefaultAPIMessage(500), Num(500), NoDetails)
  /\ retry.outcomes[3].error = APIError(DefaultAPIMessage(503), Num(503), NoDetails)
  /\ retry.waits = <<2000, 2000>>
  /\ retry.error = retry.outcomes[3].error

====
